---- MODULE Spec2Model ----
(***************************************************************************)
(* A model of cozo's insertion operator (src/src/algebra/op/insert.rs) and *)
(* of its in-memory derived relation store (src/src/runtime/derived.rs).   *)
(***************************************************************************)
EXTENDS Integers, Sequences, FiniteSets, TLC

VARIABLES
    mem_db,       \* DerivedRelStore.mem_db: the vector of epoch snapshots
    epoch_size,   \* DerivedRelStore.epoch_size
    store,        \* the destination DerivedRelStore of normal_aggr_scan_and_put
    aggrs,        \* the aggregate-spec list the caller passes with every row
    limiter,      \* the QueryLimiter handed to the finalize pass
    serial,       \* the caller's next serial number for normal_aggr_put
    hist,         \* history: the rows the caller has put so far
    target_info,  \* Insertion.target_info
    assoc_infos,  \* Insertion.assoc_infos
    upsert,       \* Insertion.upsert
    txn,          \* the root transactional key-value store
    temp_db,      \* the temporary key-value store
    calls,        \* for each handle of the store: the call it is running
    guards,       \* the RwLock guards held: <<handle, lock, mode>>
    last,         \* the last call: its arguments and what it returned
    n_ops         \* number of calls made so far

vars == <<mem_db, epoch_size, store, aggrs, limiter, serial, hist,
          target_info, assoc_infos, upsert, txn, temp_db, calls, guards, last, n_ops>>

derived_vars == <<mem_db, epoch_size, store, aggrs, limiter, serial, hist>>
insert_vars == <<target_info, assoc_infos, upsert, txn, temp_db>>
shared_vars == <<calls, guards>>

\* The handles cloned from one store, each run by a process of its own.
Handles == {1, 2}

\* No handle is inside a call and no guard is held.
InitNoCalls ==
    /\ calls = [h \in Handles |-> [pc |-> "idle"]]
    /\ guards = {}

----------------------------------------------------------------------------
(* Bounds of the model. *)

MaxOps == 3      \* calls made on a derived store in one behaviour
MaxEpoch == 1    \* largest epoch argument a caller passes
MaxVal == 2      \* numeric column values are 1..MaxVal

----------------------------------------------------------------------------
(* DataValue and Tuple. *)

Num(n) == <<"Num", n>>
Bool(b) == <<"Bool", IF b THEN 1 ELSE 0>>
Guard == <<"Guard", 0>>
Bot == <<"Bot", 0>>

\* The derived order of the DataValue variants: the sentinels come last,
\* Guard below Bot.
Rank(v) ==
    CASE v[1] = "Bool" -> 1
      [] v[1] = "Num" -> 2
      [] v[1] = "Guard" -> 3
      [] v[1] = "Bot" -> 4

DataValueLess(a, b) ==
    \/ Rank(a) < Rank(b)
    \/ Rank(a) = Rank(b) /\ a[2] < b[2]

\* Tuple(Vec<DataValue>) compares lexicographically; a proper prefix is less.
TupleLess(a, b) ==
    \E i \in 1..(Len(a) + 1) :
        /\ i <= Len(b)
        /\ \A j \in 1..(i - 1) : a[j] = b[j]
        /\ (i = Len(a) + 1 \/ DataValueLess(a[i], b[i]))

TupleLeq(a, b) == a = b \/ TupleLess(a, b)

\* BTreeMap<Tuple, Tuple>
EmptyMap == <<>>

MapInsert(m, k, v) == [x \in DOMAIN m \cup {k} |-> IF x = k THEN v ELSE m[x]]

\* The keys of a BTreeMap in iteration order.
RECURSIVE SortedKeys(_)
SortedKeys(S) ==
    IF S = {} THEN <<>>
    ELSE LET least == CHOOSE k \in S : \A o \in S : TupleLeq(k, o)
         IN <<least>> \o SortedKeys(S \ {least})

----------------------------------------------------------------------------
(* Aggregation: the meet mode. *)

None == "None"

\* MeetAggrObj::update(left, right): merges right into the accumulator left
\* and tells whether left changed; min and max of anything but two numbers
\* is an error, which leaves the accumulator as it was.
MeetUpdate(op, left, right) ==
    IF left[1] # "Num" \/ right[1] # "Num"
    THEN [val |-> left, changed |-> FALSE, err |-> TRUE]
    ELSE CASE op = "min" ->
                 IF DataValueLess(right, left)
                 THEN [val |-> right, changed |-> TRUE, err |-> FALSE]
                 ELSE [val |-> left, changed |-> FALSE, err |-> FALSE]
           [] op = "max" ->
                 IF DataValueLess(left, right)
                 THEN [val |-> right, changed |-> TRUE, err |-> FALSE]
                 ELSE [val |-> left, changed |-> FALSE, err |-> FALSE]

----------------------------------------------------------------------------
(* DerivedRelStore. A store is a record [mem_db, epoch_size].               *)

NewStore == [mem_db |-> <<>>, epoch_size |-> 0]

Self == [mem_db |-> mem_db, epoch_size |-> epoch_size]

\* A slip in ensure_mem_db_for_epoch: `want` snapshots are pushed, not `diff`.
ensure_pushes_want(st, epoch) ==
    IF st.epoch_size > epoch THEN st
    ELSE LET want == epoch + 1
         IN [mem_db |-> IF want > 0
                        THEN st.mem_db \o [i \in 1..want |-> EmptyMap]
                        ELSE st.mem_db,
             epoch_size |-> epoch]

ensure_mem_db_for_epoch(st, epoch) ==
    IF st.epoch_size > epoch THEN st
    ELSE LET l == Len(st.mem_db)
             want == epoch + 1
             diff == want - l
         IN [mem_db |-> IF diff > 0
                        THEN st.mem_db \o [i \in 1..diff |-> EmptyMap]
                        ELSE st.mem_db,
             epoch_size |-> epoch]

\* db.get(epoch as usize): snapshots are numbered from 0.
Snapshot(st, epoch) == st.mem_db[epoch + 1]

WithSnapshot(st, epoch, m) == [st EXCEPT !.mem_db[epoch + 1] = m]

\* The key of a row under meet aggregation: Guard at the aggregated positions.
meet_key(tuple, ag) ==
    [i \in 1..Len(ag) |-> IF ag[i] = None THEN tuple[i] ELSE Guard]

\* The value stored with a row first seen: the row's values at the aggregated
\* positions, Guard elsewhere.
tuple_to_store(tuple, ag) ==
    [i \in 1..Len(ag) |-> IF ag[i] # None THEN tuple[i] ELSE Guard]

\* A slip in the present branch: the new row's values replace the stored
\* accumulators instead of being merged into them.
meet_present_overwrites(st, key, tuple, ag, epoch) ==
    LET prev_aggr == Snapshot(st, 0)[key]
        merged == [i \in 1..Len(ag) |-> IF ag[i] # None THEN tuple[i] ELSE prev_aggr[i]]
        changed == merged # prev_aggr
        st0 == WithSnapshot(st, 0, MapInsert(Snapshot(st, 0), key, merged))
    IN [st |-> IF changed /\ epoch # 0
               THEN WithSnapshot(st0, epoch, MapInsert(Snapshot(st0, epoch), key, merged))
               ELSE st0,
        ret |-> changed, err |-> FALSE]

\* A slip in the present branch: the merge is made on a copy of the stored
\* row, so that a put naming a later epoch leaves epoch 0 as it was.
meet_present_merges_copy(st, key, tuple, ag, epoch) ==
    LET prev_aggr == Snapshot(st, 0)[key]
        upd == [i \in 1..Len(ag) |->
                  IF ag[i] # None
                  THEN MeetUpdate(ag[i], prev_aggr[i], tuple[i])
                  ELSE [val |-> prev_aggr[i], changed |-> FALSE, err |-> FALSE]]
        merged == [i \in 1..Len(ag) |-> upd[i].val]
        changed == \E i \in 1..Len(ag) : upd[i].changed
    IN [st |-> IF changed /\ epoch # 0
               THEN WithSnapshot(st, epoch, MapInsert(Snapshot(st, epoch), key, merged))
               ELSE WithSnapshot(st, 0, MapInsert(Snapshot(st, 0), key, merged)),
        ret |-> changed, err |-> FALSE]

\* A slip in the present branch: the row is written into the requested epoch
\* whether or not a merge changed it.
meet_present_always_records(st, key, tuple, ag, epoch) ==
    LET prev_aggr == Snapshot(st, 0)[key]
        upd == [i \in 1..Len(ag) |->
                  IF ag[i] # None
                  THEN MeetUpdate(ag[i], prev_aggr[i], tuple[i])
                  ELSE [val |-> prev_aggr[i], changed |-> FALSE, err |-> FALSE]]
        merged == [i \in 1..Len(ag) |-> upd[i].val]
        changed == \E i \in 1..Len(ag) : upd[i].changed
        st0 == WithSnapshot(st, 0, MapInsert(Snapshot(st, 0), key, merged))
    IN [st |-> IF epoch # 0
               THEN WithSnapshot(st0, epoch, MapInsert(Snapshot(st0, epoch), key, merged))
               ELSE st0,
        ret |-> changed, err |-> FALSE]

\* A slip in the merge loop: an error is noted and the loop goes on to the
\* remaining aggregates.
merge_all(prev_aggr, tuple, ag, i, changed) ==
    LET upd == [n \in 1..Len(ag) |->
                  IF ag[n] # None /\ n >= i
                  THEN MeetUpdate(ag[n], prev_aggr[n], tuple[n])
                  ELSE [val |-> prev_aggr[n], changed |-> FALSE, err |-> FALSE]]
    IN [row |-> [n \in 1..Len(ag) |-> upd[n].val],
        changed |-> changed \/ \E n \in 1..Len(ag) : upd[n].changed,
        err |-> \E n \in 1..Len(ag) : upd[n].err]

\* The merge loop of the present branch, from aggregate i on: each declared
\* aggregate merges the row's value into the stored accumulator in place;
\* the first error ends the loop (the `?` on op.update).
RECURSIVE merge(_, _, _, _, _)
merge(prev_aggr, tuple, ag, i, changed) ==
    IF i > Len(ag) THEN [row |-> prev_aggr, changed |-> changed, err |-> FALSE]
    ELSE IF ag[i] = None THEN merge(prev_aggr, tuple, ag, i + 1, changed)
    ELSE LET u == MeetUpdate(ag[i], prev_aggr[i], tuple[i])
         IN IF u.err THEN [row |-> prev_aggr, changed |-> changed, err |-> TRUE]
            ELSE merge([prev_aggr EXCEPT ![i] = u.val], tuple, ag, i + 1,
                       changed \/ u.changed)

\* The branch of aggr_meet_put taken when epoch 0 already holds the key. The
\* result is Ok(ret), or the merge error when err is true.
meet_present(st, key, tuple, ag, epoch) ==
    LET prev_aggr == Snapshot(st, 0)[key]
        m == merge(prev_aggr, tuple, ag, 1, FALSE)
        st0 == WithSnapshot(st, 0, MapInsert(Snapshot(st, 0), key, m.row))
    IN IF m.err THEN [st |-> st0, ret |-> FALSE, err |-> TRUE]
       ELSE [st |-> IF m.changed /\ epoch # 0
                    THEN WithSnapshot(st0, epoch, MapInsert(Snapshot(st0, epoch), key, m.row))
                    ELSE st0,
             ret |-> m.changed, err |-> FALSE]

\* A slip in the absent branch: a row first seen in a later epoch is stored
\* in that epoch only.
meet_absent_only_requested_epoch(st, key, tuple, ag, epoch) ==
    LET row == tuple_to_store(tuple, ag)
    IN [st |-> WithSnapshot(st, epoch, MapInsert(Snapshot(st, epoch), key, row)),
        ret |-> TRUE, err |-> FALSE]

\* The branch of aggr_meet_put taken when epoch 0 does not hold the key.
meet_absent(st, key, tuple, ag, epoch) ==
    LET row == tuple_to_store(tuple, ag)
        st0 == WithSnapshot(st, 0, MapInsert(Snapshot(st, 0), key, row))
    IN [st |-> IF epoch # 0
               THEN WithSnapshot(st0, epoch, MapInsert(Snapshot(st0, epoch), key, row))
               ELSE st0,
        ret |-> TRUE, err |-> FALSE]

aggr_meet_put(st, tuple, ag, epoch) ==
    LET st1 == ensure_mem_db_for_epoch(st, epoch)
        key == meet_key(tuple, ag)
    IN IF key \in DOMAIN Snapshot(st1, 0)
       THEN meet_present(st1, key, tuple, ag, epoch)
       ELSE meet_absent(st1, key, tuple, ag, epoch)

----------------------------------------------------------------------------
(* The callers of a derived store under meet aggregation. *)

Epochs == 0..MaxEpoch
NumVals == {Num(n) : n \in 1..MaxVal}

\* The rows of a rule with two columns.
MeetRows == {<<g, v>> : g \in {Num(1), Num(2)}, v \in NumVals}

MeetAggrs == {<<None, "min">>, <<"max", None>>, <<"min", "max">>}

InitInsertIdle ==
    /\ target_info = None
    /\ assoc_infos = <<>>
    /\ upsert = FALSE
    /\ txn = EmptyMap
    /\ temp_db = EmptyMap

InitMeet ==
    /\ mem_db = NewStore.mem_db
    /\ epoch_size = NewStore.epoch_size
    /\ store = NewStore
    /\ aggrs \in MeetAggrs
    /\ limiter = None
    /\ serial = 0
    /\ hist = {}
    /\ last = [op |-> "new"]
    /\ n_ops = 0
    /\ InitInsertIdle
    /\ InitNoCalls

AggrMeetPut(tuple, epoch) ==
    /\ n_ops < MaxOps
    /\ LET r == aggr_meet_put(Self, tuple, aggrs, epoch)
       IN /\ mem_db' = r.st.mem_db
          /\ epoch_size' = r.st.epoch_size
          /\ last' = [op |-> "aggr_meet_put", tuple |-> tuple, epoch |-> epoch,
                      ret |-> r.ret, err |-> r.err]
    /\ hist' = hist \cup {<<tuple, epoch>>}
    /\ n_ops' = n_ops + 1
    /\ UNCHANGED <<store, aggrs, limiter, serial, insert_vars, shared_vars>>

EnsureMemDbForEpoch(epoch) ==
    /\ n_ops < MaxOps
    /\ LET st == ensure_mem_db_for_epoch(Self, epoch)
       IN /\ mem_db' = st.mem_db
          /\ epoch_size' = st.epoch_size
    /\ last' = [op |-> "ensure_mem_db_for_epoch", epoch |-> epoch]
    /\ n_ops' = n_ops + 1
    /\ UNCHANGED <<store, aggrs, limiter, serial, hist, insert_vars, shared_vars>>

NextMeet ==
    \/ \E tuple \in MeetRows, epoch \in Epochs : AggrMeetPut(tuple, epoch)
    \/ \E epoch \in Epochs : EnsureMemDbForEpoch(epoch)

SpecMeet == InitMeet /\ [][NextMeet]_vars

----------------------------------------------------------------------------
(* Properties of meet aggregation and of the epoch vector. *)

\* Epoch 0 of a store, empty while the store has no snapshot yet.
Epoch0(st) == IF Len(st.mem_db) = 0 THEN EmptyMap ELSE Snapshot(st, 0)

PutLess(a, b) == TupleLess(a[1], b[1]) \/ (a[1] = b[1] /\ a[2] < b[2])

\* The store a fresh store becomes when the puts of S are applied in
\* ascending order of (row, epoch).
RECURSIVE ReplayAscending(_, _)
ReplayAscending(S, ag) ==
    IF S = {} THEN NewStore
    ELSE LET greatest == CHOOSE p \in S : \A o \in S : o = p \/ PutLess(o, p)
         IN aggr_meet_put(ReplayAscending(S \ {greatest}, ag),
                          greatest[1], ag, greatest[2]).st

\* The rows put so far that share the key of `tuple`.
SameKey(tuple) == {p[1] : p \in {q \in hist : meet_key(q[1], aggrs) = meet_key(tuple, aggrs)}}

\* The meet of a non-empty set of values: its least element for min, its
\* greatest for max.
MeetOfAll(op, S) ==
    CASE op = "min" -> CHOOSE v \in S : \A w \in S : ~DataValueLess(w, v)
      [] op = "max" -> CHOOSE v \in S : \A w \in S : ~DataValueLess(v, w)

\* C4: the epoch-0 content after a set of meet-puts does not depend on the
\* order in which they were applied: whatever order the caller used, epoch 0
\* equals what applying the same puts in ascending order gives.
C4_MeetPutOrderIndependent ==
    Epoch0(Self) = Epoch0(ReplayAscending(hist, aggrs))

\* C4 witness: two rows with the same key and different aggregated values
\* have been put, the greater row first.
C4_Witness ==
    /\ last.op = "aggr_meet_put"
    /\ \E p \in hist :
          /\ meet_key(p[1], aggrs) = meet_key(last.tuple, aggrs)
          /\ TupleLess(last.tuple, p[1])
          /\ Epoch0(Self)[meet_key(p[1], aggrs)] # tuple_to_store(last.tuple, aggrs)

\* C5: epoch 0 holds the cumulative total: every key ever put, in whatever
\* epoch, has an entry in epoch 0 whose accumulator at each aggregated
\* position is the meet of all the values put for the key at that position.
C5_EpochZeroIsTotal ==
    \A p \in hist :
        LET key == meet_key(p[1], aggrs)
        IN /\ key \in DOMAIN Epoch0(Self)
           /\ \A i \in 1..Len(aggrs) :
                 aggrs[i] # None =>
                   Epoch0(Self)[key][i] = MeetOfAll(aggrs[i], {t[i] : t \in SameKey(p[1])})

\* C5 witness: a key was put in several epochs with different values, and a
\* put naming an epoch other than 0 has just changed its accumulator.
C5_Witness ==
    /\ last.op = "aggr_meet_put" /\ last.epoch # 0 /\ last.ret
    /\ \E p \in hist : /\ p[1] # last.tuple /\ p[2] # last.epoch
                        /\ meet_key(p[1], aggrs) = meet_key(last.tuple, aggrs)

\* C6: a meet-put returns true exactly when its key was absent from epoch 0
\* or the stored accumulator changed; when it returns true for an epoch other
\* than 0, that epoch's row for the key is the row epoch 0 holds after the
\* call; when it returns false every snapshot is as before (snapshots added
\* to cover the epoch are empty).
C6_MeetPutStep ==
    last'.op = "aggr_meet_put" /\ n_ops' = n_ops + 1 =>
        LET key == meet_key(last'.tuple, aggrs)
            absent == key \notin DOMAIN Epoch0(Self)
        IN /\ last'.ret = (absent \/ mem_db'[1][key] # mem_db[1][key])
           /\ (last'.ret /\ last'.epoch # 0 =>
                 mem_db'[last'.epoch + 1][key] = mem_db'[1][key])
           /\ (~last'.ret =>
                 \A i \in 1..Len(mem_db') :
                    mem_db'[i] = IF i <= Len(mem_db) THEN mem_db[i] ELSE EmptyMap)

C6_MeetPutReturn == [][C6_MeetPutStep]_vars

\* C6 witness: a put naming an epoch other than 0 returned false for a key
\* that epoch 0 holds and that epoch does not.
C6_Witness ==
    /\ last.op = "aggr_meet_put" /\ ~last.ret /\ last.epoch # 0
    /\ Len(mem_db) > last.epoch
    /\ meet_key(last.tuple, aggrs) \in DOMAIN mem_db[1]
    /\ meet_key(last.tuple, aggrs) \notin DOMAIN mem_db[last.epoch + 1]

\* C7: ensure_mem_db_for_epoch(e) leaves a snapshot at every index 0..e,
\* keeps every existing snapshot as it was, adds only empty snapshots, and
\* changes nothing when epoch e was already covered.
C7_EnsureStep ==
    last'.op = "ensure_mem_db_for_epoch" /\ n_ops' = n_ops + 1 =>
        /\ Len(mem_db') >= last'.epoch + 1
        /\ Len(mem_db') >= Len(mem_db)
        /\ \A i \in 1..Len(mem_db') :
              mem_db'[i] = IF i <= Len(mem_db) THEN mem_db[i] ELSE EmptyMap
        /\ (Len(mem_db) >= last'.epoch + 1 => mem_db' = mem_db)

C7_EnsureEpoch == [][C7_EnsureStep]_vars

\* C7 witness: ensure was called for an epoch below the highest one the
\* store already has, on a store that holds rows.
C7_Witness ==
    /\ last.op = "ensure_mem_db_for_epoch"
    /\ Len(mem_db) > last.epoch + 1
    /\ \E i \in 1..Len(mem_db) : mem_db[i] # EmptyMap

----------------------------------------------------------------------------
(* The schema the insertion operator is built against (ddl::reify).        *)

TableId(id, in_root) == [id |-> id, in_root |-> in_root]

\* ctx.get_node_info: the node tables of the schema, with their key and
\* value columns.
get_node_info(tid) ==
    CASE tid.id = 1 -> [kind |-> "Node", tid |-> tid, keys |-> <<"a">>, vals |-> <<"x">>]
      [] tid.id = 2 -> [kind |-> "Node", tid |-> tid, keys |-> <<"b">>, vals |-> <<"y">>]

\* An edge table with one key column and one value column of its own.
EdgeInfo(id, in_root, src, dst) ==
    [kind |-> "Edge", tid |-> TableId(id, in_root), keys |-> <<"e">>, vals |-> <<"w">>,
     src_id |-> TableId(src, TRUE), dst_id |-> TableId(dst, TRUE)]

\* The target tables: a node table, an edge table between two node tables
\* and an edge table from a node table to itself.
TargetInfos ==
    UNION {{get_node_info(TableId(1, r)), EdgeInfo(3, r, 1, 2), EdgeInfo(4, r, 1, 1)} :
           r \in BOOLEAN}

AssocInfo(id, in_root, col) == [tid |-> TableId(id, in_root), vals |-> <<col>>]

\* The associations an operator may be bound to, in declaration order.
AssocChoices ==
    {<<>>, <<AssocInfo(5, TRUE, "p")>>,
     <<AssocInfo(5, TRUE, "p"), AssocInfo(6, FALSE, "q")>>}

\* DataKind::Data, the prefix of every value tuple.
DataPrefix == 0

----------------------------------------------------------------------------
(* Key/value builders and their evaluation.                                 *)

Const(v) == [const |-> TRUE, val |-> v]

\* ColSchema::make_extractor: the expression the extraction dict holds under
\* the column's name.
make_extractor(col) == [const |-> FALSE, col |-> col]

Extractors(cols) == [i \in 1..Len(cols) |-> make_extractor(cols[i])]

make_key_builders(info) ==
    CASE info.kind = "Node" ->
            [key_builder |-> Extractors(info.keys),
             val_builder |-> Extractors(info.vals),
             inv_key_builder |-> None]
      [] info.kind = "Edge" ->
            LET src == get_node_info(info.src_id)
                dst == get_node_info(info.dst_id)
                src_key_part == <<Const(Num(info.src_id.id))>>
                dst_key_part == <<Const(Num(info.dst_id.id))>>
                fwd_edge_part == <<Const(Bool(TRUE))>>
                bwd_edge_part == <<Const(Bool(TRUE))>>
            IN [key_builder |->
                    src_key_part \o Extractors(src.keys) \o fwd_edge_part
                        \o Extractors(dst.keys) \o Extractors(info.keys),
                val_builder |-> Extractors(info.vals),
                inv_key_builder |->
                    dst_key_part \o Extractors(dst.keys) \o bwd_edge_part
                        \o Extractors(src.keys) \o Extractors(info.keys)]

\* TupleSetEvalContext::eval_to_tuple: a tuple with the given prefix holding
\* the value of every expression of the builder on the current row.
eval_to_tuple(prefix, builder, row) ==
    [prefix |-> prefix,
     data |-> [i \in 1..Len(builder) |->
                 IF builder[i].const THEN builder[i].val ELSE row[builder[i].col]]]

overwrite_prefix(tuple, prefix) == [tuple EXCEPT !.prefix = prefix]

----------------------------------------------------------------------------
(* Insertion::iter. The two key-value stores are a record [txn, temp_db].   *)

Stores == [txn |-> txn, temp_db |-> temp_db]

kv_get(st, in_root, key) ==
    IF in_root THEN key \in DOMAIN st.txn ELSE key \in DOMAIN st.temp_db

kv_put(st, in_root, key, val) ==
    IF in_root THEN [st EXCEPT !.txn = MapInsert(st.txn, key, val)]
    ELSE [st EXCEPT !.temp_db = MapInsert(st.temp_db, key, val)]

\* The store a table's root flag selects.
Selected(st, in_root) == IF in_root THEN st.txn ELSE st.temp_db

\* One put: the store the root flag selects, the key and the value.
Write(in_root, key, val) == [in_root |-> in_root, key |-> key, val |-> val]

\* The stores after the puts of a sequence of writes, made in order.
RECURSIVE Replay(_, _)
Replay(st, writes) ==
    IF writes = <<>> THEN st
    ELSE Replay(kv_put(st, writes[1].in_root, writes[1].key, writes[1].val), Tail(writes))

\* A slip in the association writes: every association is written through
\* the transaction, whatever its own root flag.
write_assocs_in_txn(key, assocs, row, i) ==
    LET RECURSIVE go(_, _)
        go(k, n) ==
            IF n > Len(assocs) THEN [key |-> k, assoc_vals |-> <<>>, writes |-> <<>>]
            ELSE LET ret == eval_to_tuple(DataPrefix, Extractors(assocs[n].vals), row)
                     key1 == overwrite_prefix(k, assocs[n].tid.id)
                     rest == go(key1, n + 1)
                 IN [key |-> rest.key, assoc_vals |-> <<ret>> \o rest.assoc_vals,
                     writes |-> <<Write(TRUE, key1, ret)>> \o rest.writes]
    IN go(key, i)

\* The association writes of one row, in declaration order, from the i-th
\* association on: each overwrites the key's prefix and puts key ->
\* association value into the store its own root flag selects. The result
\* holds the key as the writes leave it, the values and the puts made.
RECURSIVE write_assocs(_, _, _, _)
write_assocs(key, assocs, row, i) ==
    IF i > Len(assocs) THEN [key |-> key, assoc_vals |-> <<>>, writes |-> <<>>]
    ELSE LET tid == assocs[i].tid
             ret == eval_to_tuple(DataPrefix, Extractors(assocs[i].vals), row)
             key1 == overwrite_prefix(key, tid.id)
             rest == write_assocs(key1, assocs, row, i + 1)
         IN [key |-> rest.key, assoc_vals |-> <<ret>> \o rest.assoc_vals,
             writes |-> <<Write(tid.in_root, key1, ret)>> \o rest.writes]

\* A slip in the conflict probe: the transaction is probed whatever the
\* target's root flag is.
probe_existing_in_txn(st, info, key) == kv_get(st, TRUE, key)

\* The probe of insert mode: the store the target's root flag selects.
probe_existing(st, info, key) == kv_get(st, info.tid.in_root, key)

\* The puts the closure makes for the primary table: key -> value, then for
\* an edge table inverse key -> key.
primary_writes(info, key, val, row) ==
    LET b == make_key_builders(info)
    IN <<Write(info.tid.in_root, key, val)>>
         \o (IF b.inv_key_builder # None
             THEN <<Write(info.tid.in_root,
                          eval_to_tuple(info.tid.id, b.inv_key_builder, row), key)>>
             ELSE <<>>)

\* A slip in the closure: the key is emitted with the prefix the last
\* association write left on it.
iter_row_keeps_assoc_prefix(st, info, assocs, ups, row) ==
    LET b == make_key_builders(info)
        target_key == info.tid
        key == eval_to_tuple(target_key.id, b.key_builder, row)
        val == eval_to_tuple(DataPrefix, b.val_builder, row)
        a == write_assocs(key, assocs, row, 1)
        writes == primary_writes(info, key, val, row) \o a.writes
    IN IF ~ups /\ probe_existing(st, info, key)
       THEN [st |-> st, probed |-> TRUE, writes |-> <<>>,
             item |-> [ok |-> FALSE, err |-> "KeyConflict", key |-> key]]
       ELSE [st |-> Replay(st, writes), probed |-> ~ups, writes |-> writes,
             item |-> [ok |-> TRUE, keys |-> <<a.key>>, vals |-> <<val>> \o a.assoc_vals]]

\* A slip in the closure: the associations are written before the primary
\* table.
iter_row_assocs_first(st, info, assocs, ups, row) ==
    LET b == make_key_builders(info)
        target_key == info.tid
        key == eval_to_tuple(target_key.id, b.key_builder, row)
        val == eval_to_tuple(DataPrefix, b.val_builder, row)
        a == write_assocs(key, assocs, row, 1)
        writes == a.writes \o primary_writes(info, key, val, row)
    IN IF ~ups /\ probe_existing(st, info, key)
       THEN [st |-> st, probed |-> TRUE, writes |-> <<>>,
             item |-> [ok |-> FALSE, err |-> "KeyConflict", key |-> key]]
       ELSE [st |-> Replay(st, writes), probed |-> ~ups, writes |-> writes,
             item |-> [ok |-> TRUE,
                       keys |-> <<overwrite_prefix(a.key, target_key.id)>>,
                       vals |-> <<val>> \o a.assoc_vals]]

\* The closure Insertion::iter maps over the upstream rows: the probe of
\* insert mode, then the puts in order (primary, inverse, associations),
\* then the emitted TupleSet.
iter_row(st, info, assocs, ups, row) ==
    LET b == make_key_builders(info)
        target_key == info.tid
        key == eval_to_tuple(target_key.id, b.key_builder, row)
        val == eval_to_tuple(DataPrefix, b.val_builder, row)
        a == write_assocs(key, assocs, row, 1)
        writes == primary_writes(info, key, val, row) \o a.writes
    IN IF ~ups /\ probe_existing(st, info, key)
       THEN [st |-> st, probed |-> TRUE, writes |-> <<>>,
             item |-> [ok |-> FALSE, err |-> "KeyConflict", key |-> key]]
       ELSE [st |-> Replay(st, writes), probed |-> ~ups, writes |-> writes,
             item |-> [ok |-> TRUE,
                       keys |-> <<overwrite_prefix(a.key, target_key.id)>>,
                       vals |-> <<val>> \o a.assoc_vals]]

----------------------------------------------------------------------------
(* The insertion operator fed by an upstream source.                        *)

MaxRows == 2     \* rows the upstream source yields

KeyVals == {Num(1), Num(2)}

\* The columns the extraction dict names: those of the target (for an edge,
\* the key columns of its two node tables too) and of the bound associations.
RowCols(info, assocs) ==
    {info.keys[i] : i \in 1..Len(info.keys)} \cup {info.vals[i] : i \in 1..Len(info.vals)}
    \cup (IF info.kind = "Edge"
          THEN {"a"} \cup (IF info.dst_id.id = 2 THEN {"b"} ELSE {})
          ELSE {})
    \cup UNION {{assocs[i].vals[j] : j \in 1..Len(assocs[i].vals)} : i \in 1..Len(assocs)}

\* The rows the upstream source may yield, as resolved extraction dicts: the
\* key columns vary freely; the value columns follow one payload.
SourceRows(info, assocs) ==
    {[c \in RowCols(info, assocs) |->
        CASE c = "a" -> ka [] c = "b" -> kb [] c = "e" -> ke
          [] c \in {"x", "y", "w"} -> Num(v)
          [] c = "p" -> Num(v + 2)
          [] c = "q" -> Num(v + 4)] :
     ka \in KeyVals, kb \in KeyVals, ke \in KeyVals, v \in 1..2}

InitDerivedIdle ==
    /\ mem_db = NewStore.mem_db
    /\ epoch_size = NewStore.epoch_size
    /\ store = NewStore
    /\ aggrs = <<>>
    /\ limiter = None
    /\ serial = 0
    /\ hist = {}

InitInsert ==
    /\ target_info \in TargetInfos
    /\ assoc_infos \in AssocChoices
    /\ upsert \in BOOLEAN
    /\ txn = EmptyMap
    /\ temp_db = EmptyMap
    /\ last = [op |-> "new"]
    /\ n_ops = 0
    /\ InitDerivedIdle
    /\ InitNoCalls

\* Insertion::iter: the builders are made and the lazy iterator is returned;
\* nothing is read from upstream and nothing is written.
Iter ==
    /\ last.op = "new"
    /\ last' = [op |-> "iter_created"]
    /\ UNCHANGED <<n_ops, insert_vars, derived_vars, shared_vars>>

\* The consumer pulls the next item: the upstream row is mapped by iter_row.
IterNext(row) ==
    /\ last.op # "new"
    /\ n_ops < MaxRows
    /\ LET r == iter_row(Stores, target_info, assoc_infos, upsert, row)
       IN /\ txn' = r.st.txn
          /\ temp_db' = r.st.temp_db
          /\ last' = [op |-> "iter", row |-> row, probed |-> r.probed, item |-> r.item,
                      writes |-> r.writes]
    /\ n_ops' = n_ops + 1
    /\ UNCHANGED <<target_info, assoc_infos, upsert, derived_vars, shared_vars>>

NextInsert ==
    \/ Iter
    \/ \E row \in SourceRows(target_info, assoc_infos) : IterNext(row)

SpecInsert == InitInsert /\ [][NextInsert]_vars

----------------------------------------------------------------------------
(* Properties of the insertion operator.                                    *)

\* The primary key, the value and the inverse key of a row.
PrimaryKey(row) ==
    eval_to_tuple(target_info.tid.id, make_key_builders(target_info).key_builder, row)

PrimaryVal(row) ==
    eval_to_tuple(DataPrefix, make_key_builders(target_info).val_builder, row)

InverseKey(row) ==
    eval_to_tuple(target_info.tid.id, make_key_builders(target_info).inv_key_builder, row)

TargetStore == Selected(Stores, target_info.tid.in_root)

\* C1: in insert mode a row whose primary key is already in the store the
\* target's root flag selects yields KeyConflict carrying that key, and no
\* store is written.
C1_ConflictStep ==
    /\ last'.op = "iter" /\ n_ops' = n_ops + 1
    /\ ~upsert
    /\ PrimaryKey(last'.row) \in DOMAIN TargetStore
    => /\ last'.item = [ok |-> FALSE, err |-> "KeyConflict", key |-> PrimaryKey(last'.row)]
       /\ txn' = txn
       /\ temp_db' = temp_db

C1_InsertKeyConflict == [][C1_ConflictStep]_vars

\* C1 witness: a row was refused with KeyConflict although its value differs
\* from the one stored, with associations bound, on a table of the
\* temporary store.
C1_Witness ==
    /\ last.op = "iter" /\ ~last.item.ok /\ last.item.err = "KeyConflict"
    /\ ~target_info.tid.in_root
    /\ assoc_infos # <<>>
    /\ temp_db[last.item.key] # PrimaryVal(last.row)

\* C2: in upsert mode a row never yields KeyConflict and is never probed
\* for, and once it is processed the target store maps its primary key to
\* its value.
C2_UpsertStep ==
    last'.op = "iter" /\ n_ops' = n_ops + 1 /\ upsert =>
        /\ last'.item.ok
        /\ ~last'.probed
        /\ PrimaryKey(last'.row) \in DOMAIN TargetStore'
        /\ TargetStore'[PrimaryKey(last'.row)] = PrimaryVal(last'.row)

C2_UpsertLastWriteWins == [][C2_UpsertStep]_vars

\* C3: every row written to an edge table leaves two entries in the target
\* store: forward key -> value and inverse key -> forward key.
C3_EdgeStep ==
    /\ last'.op = "iter" /\ n_ops' = n_ops + 1
    /\ target_info.kind = "Edge" /\ last'.item.ok
    => LET fwd == PrimaryKey(last'.row)
           inv == InverseKey(last'.row)
       IN /\ fwd # inv
          /\ fwd \in DOMAIN TargetStore' /\ TargetStore'[fwd] = PrimaryVal(last'.row)
          /\ inv \in DOMAIN TargetStore' /\ TargetStore'[inv] = fwd

C3_EdgeTwoEntries == [][C3_EdgeStep]_vars

----------------------------------------------------------------------------
(* Plain puts, exists, and the normal (stateful) aggregation pass.          *)

\* DerivedRelStore::put
put(st, tuple, epoch) ==
    LET st1 == ensure_mem_db_for_epoch(st, epoch)
    IN WithSnapshot(st1, epoch, MapInsert(Snapshot(st1, epoch), tuple, <<>>))

\* A slip in exists: the lookup leaves an entry behind for the tuple.
exists_inserts(st, tuple, epoch) ==
    LET st1 == ensure_mem_db_for_epoch(st, epoch)
    IN [st |-> WithSnapshot(st1, epoch,
                            IF tuple \in DOMAIN Snapshot(st1, epoch)
                            THEN Snapshot(st1, epoch)
                            ELSE MapInsert(Snapshot(st1, epoch), tuple, <<>>)),
        ret |-> tuple \in DOMAIN Snapshot(st1, epoch)]

\* DerivedRelStore::exists
exists(st, tuple, epoch) ==
    LET st1 == ensure_mem_db_for_epoch(st, epoch)
    IN [st |-> st1, ret |-> tuple \in DOMAIN Snapshot(st1, epoch)]

\* The positions of ag, in order, that hold (want_none) no aggregate or
\* (otherwise) an aggregate.
Positions(ag, want_none) == SelectSeq([i \in 1..Len(ag) |-> i], LAMBDA i : (ag[i] = None) = want_none)

\* A slip in normal_aggr_put: the columns are stored in their declared order.
normal_aggr_put_declared_order(st, tuple, ag, ser) ==
    LET st1 == ensure_mem_db_for_epoch(st, 0)
        vals == [i \in 1..Len(ag) |-> tuple[i]] \o <<Num(ser)>>
    IN WithSnapshot(st1, 0, MapInsert(Snapshot(st1, 0), vals, <<>>))

\* DerivedRelStore::normal_aggr_put: the non-aggregated columns, then the
\* aggregated ones, then the serial number.
normal_aggr_put(st, tuple, ag, ser) ==
    LET st1 == ensure_mem_db_for_epoch(st, 0)
        keys == Positions(ag, TRUE)
        aggd == Positions(ag, FALSE)
        vals == [i \in 1..Len(keys) |-> tuple[keys[i]]]
                  \o [i \in 1..Len(aggd) |-> tuple[aggd[i]]]
                  \o <<Num(ser)>>
    IN WithSnapshot(st1, 0, MapInsert(Snapshot(st1, 0), vals, <<>>))

\* A slip in the reassembly: the key is returned as stored, Guards included.
reassemble_without_substitution(k, v) == k

\* The reassembly every scan makes of a stored (key, value) pair.
Reassemble(k, v) ==
    IF v = <<>> THEN k
    ELSE [i \in 1..(IF Len(k) < Len(v) THEN Len(k) ELSE Len(v)) |->
            IF k[i] = Guard THEN v[i] ELSE k[i]]

\* The rows of a snapshot in key order, reassembled.
ScanRows(m) ==
    LET ks == SortedKeys(DOMAIN m)
    IN [i \in 1..Len(ks) |-> Reassemble(ks[i], m[ks[i]])]

\* invert_indices: for each declared position, the position the column has
\* in the rows normal_aggr_put stored.
invert_indices(ag) ==
    LET order == Positions(ag, TRUE) \o Positions(ag, FALSE)
    IN [idx \in 1..Len(ag) |-> CHOOSE a \in 1..Len(order) : order[a] = idx]

\* The normal mode of an aggregate: normal_init, set, get.
NormalInit(op) == 0

NormalSet(op, acc, val) ==
    CASE op = "sum" -> acc + val[2]
      [] op = "count" -> acc + 1

NormalGet(op, acc) == Num(acc)

\* group_by: the length of the run of rows, from row i on, that share the
\* first n_keys columns of row i.
RECURSIVE GroupLen(_, _, _, _)
GroupLen(rows, i, j, n_keys) ==
    IF j <= Len(rows) /\ SubSeq(rows[j], 1, n_keys) = SubSeq(rows[i], 1, n_keys)
    THEN GroupLen(rows, i, j + 1, n_keys)
    ELSE j - i

\* The accumulator of the aggregate at position idx after set() on the rows
\* i..j of the group.
RECURSIVE SetAll(_, _, _, _, _)
SetAll(op, rows, i, j, pos) ==
    IF j < i THEN NormalInit(op)
    ELSE NormalSet(op, SetAll(op, rows, i, j - 1, pos), rows[j][pos])

\* The result row of the group made of rows i..j.
GroupResult(ag, rows, i, j) ==
    LET inv == invert_indices(ag)
    IN [idx \in 1..Len(ag) |->
          IF ag[idx] # None
          THEN NormalGet(ag[idx], SetAll(ag[idx], rows, i, j, inv[idx]))
          ELSE rows[i][inv[idx]]]

\* poison.check() after row k: an error once cancellation was requested.
\* poison_from is the row from which the flag is up (0: it never is).
PoisonCheck(poison_from, k) == poison_from # 0 /\ k >= poison_from

\* QueryLimiter::incr: counts one more row and tells whether that is enough.
LimiterIncr(lmt) ==
    [lmt |-> [lmt EXCEPT !.counter = @ + 1], enough |-> lmt.counter + 1 >= lmt.total]

\* A slip in the finalize pass: the limiter's answer is ignored.
store_result_ignores_limiter(dest, lmt, use_limiter, res_tpl) ==
    IF use_limiter
    THEN LET ex == exists(dest, res_tpl, 0)
         IN IF ~ex.ret
            THEN [store |-> put(ex.st, res_tpl, 0), limiter |-> LimiterIncr(lmt).lmt, stop |-> FALSE]
            ELSE [store |-> ex.st, limiter |-> lmt, stop |-> FALSE]
    ELSE [store |-> put(dest, res_tpl, 0), limiter |-> lmt, stop |-> FALSE]

\* A slip in the finalize pass: the limiter counts every group result, also
\* one the destination already holds.
store_result_counts_duplicates(dest, lmt, use_limiter, res_tpl) ==
    IF use_limiter
    THEN LET ex == exists(dest, res_tpl, 0)
             inc == LimiterIncr(lmt)
         IN [store |-> put(ex.st, res_tpl, 0), limiter |-> inc.lmt, stop |-> inc.enough]
    ELSE [store |-> put(dest, res_tpl, 0), limiter |-> lmt, stop |-> FALSE]

\* The end of a group in the finalize pass: the result row goes to the
\* destination store, through the limiter when there is one.
store_result(dest, lmt, use_limiter, res_tpl) ==
    IF use_limiter
    THEN LET ex == exists(dest, res_tpl, 0)
             inc == LimiterIncr(lmt)
         IN IF ~ex.ret
            THEN [store |-> put(ex.st, res_tpl, 0), limiter |-> inc.lmt, stop |-> inc.enough]
            ELSE [store |-> ex.st, limiter |-> lmt, stop |-> FALSE]
    ELSE [store |-> put(dest, res_tpl, 0), limiter |-> lmt, stop |-> FALSE]

\* The loop of normal_aggr_scan_and_put over the groups, from row i on. The
\* result is Ok(ret), or the cancellation error when err is true.
RECURSIVE scan_groups(_, _, _, _, _, _, _)
scan_groups(ag, rows, i, dest, lmt, use_limiter, poison_from) ==
    IF i > Len(rows) THEN [store |-> dest, limiter |-> lmt, ret |-> FALSE, err |-> FALSE]
    ELSE LET n_keys == Len(Positions(ag, TRUE))
             j == i + GroupLen(rows, i, i + 1, n_keys)
             cancelled == \E k \in (i + 1)..(j - 1) : PoisonCheck(poison_from, k)
             r == store_result(dest, lmt, use_limiter, GroupResult(ag, rows, i, j - 1))
         IN IF cancelled THEN [store |-> dest, limiter |-> lmt, ret |-> FALSE, err |-> TRUE]
            ELSE IF r.stop THEN [store |-> r.store, limiter |-> r.limiter, ret |-> TRUE, err |-> FALSE]
            ELSE scan_groups(ag, rows, j, r.store, r.limiter, use_limiter, poison_from)

\* DerivedRelStore::normal_aggr_scan_and_put
normal_aggr_scan_and_put(st, ag, dest, lmt, use_limiter, poison_from) ==
    LET rows == IF Len(st.mem_db) = 0 THEN <<>> ELSE ScanRows(Snapshot(st, 0))
    IN scan_groups(ag, rows, 1, dest, lmt, use_limiter, poison_from)

----------------------------------------------------------------------------
(* The callers of a derived store under normal aggregation.                 *)

MaxCap == 2      \* largest capacity of a row-count limiter

NormalAggrs == {<<None, "sum">>, <<"sum", None>>, <<"count", "sum">>, <<None, None>>}

\* When cancellation is requested during a finalize pass: never, before it
\* starts, or once its first row is done.
PoisonChoices == {0, 1, 2}

InitNormal ==
    /\ mem_db = NewStore.mem_db
    /\ epoch_size = NewStore.epoch_size
    /\ store = NewStore
    /\ aggrs \in NormalAggrs
    /\ limiter \in {[total |-> c, counter |-> 0] : c \in 1..MaxCap}
    /\ serial = 0
    /\ hist = {}
    /\ last = [op |-> "new"]
    /\ n_ops = 0
    /\ InitInsertIdle
    /\ InitNoCalls

\* The caller stores one more row, with the next serial number.
NormalAggrPut(tuple) ==
    /\ n_ops < MaxOps
    /\ LET st == normal_aggr_put(Self, tuple, aggrs, serial)
       IN /\ mem_db' = st.mem_db
          /\ epoch_size' = st.epoch_size
    /\ hist' = hist \cup {<<tuple, serial>>}
    /\ serial' = serial + 1
    /\ last' = [op |-> "normal_aggr_put", tuple |-> tuple]
    /\ n_ops' = n_ops + 1
    /\ UNCHANGED <<store, aggrs, limiter, insert_vars, shared_vars>>

NormalAggrScanAndPut(use_limiter, poison_from) ==
    /\ n_ops < MaxOps
    /\ LET r == normal_aggr_scan_and_put(Self, aggrs, store, limiter, use_limiter, poison_from)
       IN /\ store' = r.store
          /\ limiter' = r.limiter
          /\ last' = [op |-> "normal_aggr_scan_and_put", use_limiter |-> use_limiter,
                      poison_from |-> poison_from, ret |-> r.ret, err |-> r.err]
    /\ n_ops' = n_ops + 1
    /\ UNCHANGED <<mem_db, epoch_size, aggrs, serial, hist, insert_vars, shared_vars>>

NextNormal ==
    \/ \E tuple \in MeetRows : NormalAggrPut(tuple)
    \/ \E use_limiter \in BOOLEAN, poison_from \in PoisonChoices :
          NormalAggrScanAndPut(use_limiter, poison_from)

SpecNormal == InitNormal /\ [][NextNormal]_vars

----------------------------------------------------------------------------
(* Properties of the normal aggregation pass.                               *)

\* The non-aggregated columns of a row, in declared order.
GroupOf(row) ==
    LET keys == Positions(aggrs, TRUE)
    IN [i \in 1..Len(keys) |-> row[keys[i]]]

\* The rows put so far (with their serial numbers) in the group of `row`.
GroupMembers(row) == {p \in hist : GroupOf(p[1]) = GroupOf(row)}

RECURSIVE SumOf(_, _)
SumOf(S, idx) ==
    IF S = {} THEN 0
    ELSE LET p == CHOOSE q \in S : TRUE
         IN p[1][idx][2] + SumOf(S \ {p}, idx)

\* The aggregate of a group of rows at position idx.
FoldOf(op, S, idx) ==
    CASE op = "sum" -> Num(SumOf(S, idx))
      [] op = "count" -> Num(Cardinality(S))

\* The result row of the group of `row`: its own non-aggregated columns and
\* the aggregates over the whole group, in declared order.
ExpectedRow(row) ==
    [idx \in 1..Len(aggrs) |->
        IF aggrs[idx] = None THEN row[idx]
        ELSE FoldOf(aggrs[idx], GroupMembers(row), idx)]

ExpectedRows == {ExpectedRow(p[1]) : p \in hist}

\* The expected result rows in the order of their groups.
RECURSIVE ByGroup(_)
ByGroup(S) ==
    IF S = {} THEN <<>>
    ELSE LET least == CHOOSE r \in S : \A o \in S : TupleLeq(GroupOf(r), GroupOf(o))
         IN <<least>> \o ByGroup(S \ {least})

Range(seq) == {seq[i] : i \in 1..Len(seq)}

\* C8: a finalize pass without limiter and without cancellation stores, in
\* epoch 0 of the destination, exactly one row per group of the rows put,
\* holding the group's columns and each aggregate folded over the whole
\* group, in declared column order, whatever the order and the serial
\* numbers of the puts; it reports no early termination.
C8_FinalizeStep ==
    /\ last'.op = "normal_aggr_scan_and_put" /\ n_ops' = n_ops + 1
    /\ ~last'.use_limiter /\ last'.poison_from = 0
    => /\ ~last'.err /\ last'.ret = FALSE
       /\ DOMAIN Epoch0(store') = DOMAIN Epoch0(store) \cup ExpectedRows
       /\ Cardinality(ExpectedRows) = Cardinality({GroupOf(p[1]) : p \in hist})
       /\ \A r \in ExpectedRows : Epoch0(store')[r] = <<>>

C8_FinalizeGroups == [][C8_FinalizeStep]_vars

\* C8 witness: a group with two different rows, the lesser one put later,
\* was folded into one result row by a pass without limiter.
C8_Witness ==
    /\ last.op = "normal_aggr_scan_and_put" /\ ~last.use_limiter /\ ~last.err
    /\ \E i \in 1..Len(aggrs) : aggrs[i] # None
    /\ \E p, q \in hist :
          /\ GroupOf(p[1]) = GroupOf(q[1])
          /\ TupleLess(p[1], q[1]) /\ p[2] > q[2]
          /\ ExpectedRow(p[1]) \in DOMAIN Epoch0(store)

\* C9: a finalize pass with a limiter (and no cancellation) writes the group
\* results in group order and stops at the novel insertion at which the
\* limiter signals: nothing later is written and the call returns true; when
\* the limiter does not signal, every group is written and it returns
\* false. Capacity 1 over two groups, into an empty destination, stores
\* exactly one result.
C9_LimiterStep ==
    /\ last'.op = "normal_aggr_scan_and_put" /\ n_ops' = n_ops + 1
    /\ last'.use_limiter /\ last'.poison_from = 0
    => LET novel == SelectSeq(ByGroup(ExpectedRows),
                              LAMBDA r : r \notin DOMAIN Epoch0(store))
           left == limiter.total - limiter.counter
           k == IF left > 1 THEN left ELSE 1
       IN /\ ~last'.err
          /\ IF Len(novel) >= k
             THEN /\ last'.ret = TRUE
                  /\ DOMAIN Epoch0(store') =
                        DOMAIN Epoch0(store) \cup {novel[i] : i \in 1..k}
             ELSE /\ last'.ret = FALSE
                  /\ DOMAIN Epoch0(store') = DOMAIN Epoch0(store) \cup Range(novel)
          /\ (/\ limiter.total = 1 /\ limiter.counter = 0
              /\ Epoch0(store) = EmptyMap /\ Cardinality(ExpectedRows) = 2
              => last'.ret = TRUE /\ Cardinality(DOMAIN Epoch0(store')) = 1)

C9_LimiterStops == [][C9_LimiterStep]_vars

\* C9 witness: a pass with a limiter of capacity 1 over two groups stopped
\* early with one result stored.
C9_Witness ==
    /\ last.op = "normal_aggr_scan_and_put" /\ last.use_limiter /\ last.ret = TRUE
    /\ limiter.total = 1
    /\ Cardinality(ExpectedRows) = 2
    /\ Cardinality(DOMAIN Epoch0(store)) = 1

----------------------------------------------------------------------------
(* Prefix scans.                                                            *)

\* A slip in the prefix scan: the upper bound is the prefix itself.
prefix_upper_without_sentinel(prefix) == prefix

\* The upper bound of a prefix scan: the prefix with Bot appended.
prefix_upper(prefix) == prefix \o <<Bot>>

\* BTreeMap::range((Included(lower), Included(upper))): the keys within the
\* bounds, in order.
RangeKeys(m, lower, upper) ==
    SortedKeys({k \in DOMAIN m : TupleLeq(lower, k) /\ TupleLeq(k, upper)})

\* DerivedRelStore::scan_prefix_for_epoch
scan_prefix_for_epoch(st, prefix, epoch) ==
    LET upper == prefix_upper(prefix)
        st1 == ensure_mem_db_for_epoch(st, epoch)
        target == Snapshot(st1, epoch)
        ks == RangeKeys(target, prefix, upper)
    IN [st |-> st1, res |-> [i \in 1..Len(ks) |-> Reassemble(ks[i], target[ks[i]])]]

----------------------------------------------------------------------------
(* A store of three-column rows and the prefix scans a reader makes of it.  *)

MaxKeys == 3     \* rows the store holds when it is scanned

ScanVals == {Num(1), Num(2)}

ScanTuples == {<<a, b, c>> : a \in ScanVals, b \in ScanVals, c \in ScanVals}

\* The prefixes a reader may scan for: every leading part of a row.
Prefixes == UNION {{SubSeq(t, 1, n) : n \in 0..Len(t)} : t \in ScanTuples}

\* The store after the rows of S, pairs <<row, epoch>>, were put.
RECURSIVE PutAll(_)
PutAll(S) ==
    IF S = {} THEN NewStore
    ELSE LET p == CHOOSE q \in S : TRUE
         IN put(PutAll(S \ {p}), p[1], p[2])

InitScan ==
    /\ \E S \in SUBSET (ScanTuples \X Epochs) :
          /\ Cardinality(S) <= MaxKeys
          /\ mem_db = PutAll(S).mem_db
          /\ epoch_size = PutAll(S).epoch_size
    /\ store = NewStore
    /\ aggrs = <<>>
    /\ limiter = None
    /\ serial = 0
    /\ hist = {}
    /\ last = [op |-> "new"]
    /\ n_ops = 0
    /\ InitInsertIdle
    /\ InitNoCalls

ScanPrefixForEpoch(prefix, epoch) ==
    /\ n_ops = 0
    /\ LET r == scan_prefix_for_epoch(Self, prefix, epoch)
       IN /\ mem_db' = r.st.mem_db
          /\ epoch_size' = r.st.epoch_size
          /\ last' = [op |-> "scan_prefix_for_epoch", prefix |-> prefix,
                      epoch |-> epoch, res |-> r.res]
    /\ n_ops' = n_ops + 1
    /\ UNCHANGED <<store, aggrs, limiter, serial, hist, insert_vars, shared_vars>>

NextScan == \E prefix \in Prefixes, epoch \in Epochs : ScanPrefixForEpoch(prefix, epoch)

SpecScan == InitScan /\ [][NextScan]_vars

----------------------------------------------------------------------------
(* Properties of the prefix scan.                                           *)

IsPrefix(p, k) == Len(p) <= Len(k) /\ SubSeq(k, 1, Len(p)) = p

\* C10: scan_prefix_for_epoch(prefix, e) returns, once each, exactly the
\* rows of epoch e whose key starts with prefix.
C10_PrefixScanExact ==
    last.op = "scan_prefix_for_epoch" =>
        LET sharing == {k \in DOMAIN mem_db[last.epoch + 1] : IsPrefix(last.prefix, k)}
        IN /\ Range(last.res) = sharing
           /\ Len(last.res) = Cardinality(sharing)

\* C10 witness: a scan for a one-column prefix returned two rows that differ
\* in both trailing columns and left out a row of the epoch with another
\* prefix.
C10_Witness ==
    /\ last.op = "scan_prefix_for_epoch"
    /\ Len(last.prefix) = 1
    /\ \E i, j \in 1..Len(last.res) :
          last.res[i][2] # last.res[j][2] /\ last.res[i][3] # last.res[j][3]
    /\ \E k \in DOMAIN mem_db[last.epoch + 1] : ~IsPrefix(last.prefix, k)

----------------------------------------------------------------------------
(* Full scans of a store filled by meet-puts.                               *)

\* DerivedRelStore::scan_all_for_epoch
scan_all_for_epoch(st, epoch) ==
    LET st1 == ensure_mem_db_for_epoch(st, epoch)
    IN [st |-> st1, res |-> ScanRows(Snapshot(st1, epoch))]

ScanAllForEpoch(epoch) ==
    /\ n_ops < MaxOps
    /\ LET r == scan_all_for_epoch(Self, epoch)
       IN /\ mem_db' = r.st.mem_db
          /\ epoch_size' = r.st.epoch_size
          /\ last' = [op |-> "scan_all_for_epoch", epoch |-> epoch, res |-> r.res]
    /\ n_ops' = n_ops + 1
    /\ UNCHANGED <<store, aggrs, limiter, serial, hist, insert_vars, shared_vars>>

NextMeetScan ==
    \/ \E tuple \in MeetRows, epoch \in Epochs : AggrMeetPut(tuple, epoch)
    \/ \E epoch \in Epochs : ScanAllForEpoch(epoch)

SpecMeetScan == InitMeet /\ [][NextMeetScan]_vars

\* The key/value split aggr_meet_put makes of a row.
Split(tuple, ag) == <<meet_key(tuple, ag), tuple_to_store(tuple, ag)>>

\* Every stored (key, value) pair is the split of its own reassembly.
SplitOfReassemble ==
    \A i \in 1..Len(mem_db) : \A k \in DOMAIN mem_db[i] :
        Split(Reassemble(k, mem_db[i][k]), aggrs) = <<k, mem_db[i][k]>>

\* A full scan that follows the first meet-put of a row's key, of epoch 0 or
\* of the epoch the put named, returns the row as it was put.
ScanAfterFirstPut ==
    /\ last.op = "aggr_meet_put"
    /\ last'.op = "scan_all_for_epoch" /\ n_ops' = n_ops + 1
    /\ last'.epoch \in {0, last.epoch}
    /\ \A q \in hist : meet_key(q[1], aggrs) = meet_key(last.tuple, aggrs) => q = <<last.tuple, last.epoch>>
    => /\ last.tuple \in Range(last'.res)
       /\ \A r \in Range(last'.res) :
             meet_key(r, aggrs) = meet_key(last.tuple, aggrs) => r = last.tuple

\* C11: the split made by aggr_meet_put and the reassembly made by the scans
\* are mutually inverse: every stored pair is the split of its reassembly,
\* and a scan right after the first meet-put of a row returns that row.
C11_SplitReassembleInverse == []SplitOfReassemble /\ [][ScanAfterFirstPut]_vars

\* C11 witness: a scan of a later epoch has returned a row whose key holds a
\* Guard, right after the row's first meet-put.
C11_Witness ==
    /\ last.op = "scan_all_for_epoch" /\ last.epoch # 0
    /\ Cardinality(hist) = 1
    /\ \E p \in hist :
          /\ p[2] = last.epoch
          /\ last.res = <<p[1]>>
          /\ meet_key(p[1], aggrs) # p[1]
          /\ meet_key(p[1], aggrs) \in DOMAIN mem_db[last.epoch + 1]

----------------------------------------------------------------------------
(* Handles cloned from one store, run as interleaved processes. Every        *)
(* acquisition of a guard is a step of its own.                              *)

\* The locks of a store: the one on the epoch vector, one per snapshot.
VecLock == <<"mem_db", 0>>
SnapLock(epoch) == <<"snapshot", epoch>>

\* RwLock::try_read: granted unless a write guard is held on the lock.
try_read(g, lock) == ~\E x \in g : x[2] = lock /\ x[3] = "write"

\* RwLock::try_write: granted only when no guard at all is held on the lock.
try_write(g, lock) == ~\E x \in g : x[2] = lock

\* Dropping every guard a handle holds.
Release(g, h) == {x \in g : x[1] # h}

\* unwrap() of a refused acquisition: the process panics and its guards are
\* dropped while it unwinds.
Panic(h, lock, mode) ==
    /\ calls' = [calls EXCEPT ![h] = [pc |-> "panicked"]]
    /\ guards' = Release(guards, h)
    /\ last' = [op |-> "panic", handle |-> h, lock |-> lock, mode |-> mode]
    /\ UNCHANGED <<mem_db, epoch_size, n_ops>>

\* A granted acquisition: the guard is held and the call moves on.
Acquire(h, lock, mode, pc) ==
    /\ calls' = [calls EXCEPT ![h].pc = pc]
    /\ guards' = guards \cup {<<h, lock, mode>>}
    /\ last' = [op |-> "acquire", handle |-> h, lock |-> lock, mode |-> mode]
    /\ UNCHANGED <<mem_db, epoch_size, n_ops>>

SharedRows == {<<Num(1)>>}
SharedOps == {"put", "exists"}

InitShared ==
    /\ mem_db = NewStore.mem_db
    /\ epoch_size = NewStore.epoch_size
    /\ store = NewStore
    /\ aggrs = <<>>
    /\ limiter = None
    /\ serial = 0
    /\ hist = {}
    /\ last = [op |-> "new"]
    /\ n_ops = 0
    /\ InitInsertIdle
    /\ InitNoCalls

\* A handle enters put or exists: ensure_mem_db_for_epoch loads epoch_size.
Begin(h, op, tuple, epoch) ==
    /\ n_ops < MaxOps
    /\ calls[h].pc = "idle"
    /\ calls' = [calls EXCEPT ![h] =
                   [pc |-> IF epoch_size > epoch THEN "read_vec" ELSE "ensure_len",
                    op |-> op, tuple |-> tuple, epoch |-> epoch, l |-> 0]]
    /\ last' = [op |-> "begin", handle |-> h]
    /\ n_ops' = n_ops + 1
    /\ UNCHANGED <<mem_db, epoch_size, guards>>
    /\ UNCHANGED <<store, aggrs, limiter, serial, hist, insert_vars>>

\* ensure_mem_db_for_epoch: self.mem_db.try_read().unwrap().len()
EnsureLen(h) ==
    /\ calls[h].pc = "ensure_len"
    /\ IF try_read(guards, VecLock)
       THEN /\ calls' = [calls EXCEPT ![h].l = Len(mem_db),
                                      ![h].pc = IF calls[h].epoch + 1 - Len(mem_db) > 0
                                                THEN "ensure_write" ELSE "ensure_store"]
            /\ last' = [op |-> "len", handle |-> h]
            /\ UNCHANGED <<mem_db, epoch_size, guards, n_ops>>
       ELSE Panic(h, VecLock, "read")
    /\ UNCHANGED <<store, aggrs, limiter, serial, hist, insert_vars>>

\* ensure_mem_db_for_epoch: self.mem_db.try_write().unwrap()
EnsureWrite(h) ==
    /\ calls[h].pc = "ensure_write"
    /\ IF try_write(guards, VecLock)
       THEN Acquire(h, VecLock, "write", "ensure_push")
       ELSE Panic(h, VecLock, "write")
    /\ UNCHANGED <<store, aggrs, limiter, serial, hist, insert_vars>>

\* ensure_mem_db_for_epoch: diff snapshots are pushed and the guard dropped.
EnsurePush(h) ==
    /\ calls[h].pc = "ensure_push"
    /\ mem_db' = mem_db \o [i \in 1..(calls[h].epoch + 1 - calls[h].l) |-> EmptyMap]
    /\ guards' = Release(guards, h)
    /\ calls' = [calls EXCEPT ![h].pc = "ensure_store"]
    /\ last' = [op |-> "push", handle |-> h]
    /\ UNCHANGED <<epoch_size, n_ops>>
    /\ UNCHANGED <<store, aggrs, limiter, serial, hist, insert_vars>>

\* ensure_mem_db_for_epoch: self.epoch_size.store(epoch)
EnsureStore(h) ==
    /\ calls[h].pc = "ensure_store"
    /\ epoch_size' = calls[h].epoch
    /\ calls' = [calls EXCEPT ![h].pc = "read_vec"]
    /\ last' = [op |-> "store", handle |-> h]
    /\ UNCHANGED <<mem_db, guards, n_ops>>
    /\ UNCHANGED <<store, aggrs, limiter, serial, hist, insert_vars>>

\* put, exists: self.mem_db.try_read().unwrap()
ReadVec(h) ==
    /\ calls[h].pc = "read_vec"
    /\ IF try_read(guards, VecLock)
       THEN Acquire(h, VecLock, "read", "get_snapshot")
       ELSE Panic(h, VecLock, "read")
    /\ UNCHANGED <<store, aggrs, limiter, serial, hist, insert_vars>>

\* A slip in put and exists: a refused snapshot guard is asked for again
\* after the vector guard is given back, instead of ending the process.
GetSnapshot_retries(h) ==
    /\ calls[h].pc = "get_snapshot"
    /\ LET lock == SnapLock(calls[h].epoch)
           mode == IF calls[h].op = "put" THEN "write" ELSE "read"
           granted == IF mode = "write" THEN try_write(guards, lock) ELSE try_read(guards, lock)
       IN IF granted
          THEN Acquire(h, lock, mode, "access")
          ELSE /\ calls' = [calls EXCEPT ![h].pc = "read_vec"]
               /\ guards' = Release(guards, h)
               /\ last' = [op |-> "retry", handle |-> h]
               /\ UNCHANGED <<mem_db, epoch_size, n_ops>>
    /\ UNCHANGED <<store, aggrs, limiter, serial, hist, insert_vars>>

\* put: db.get(epoch).unwrap().try_write().unwrap(); exists: ...try_read()
GetSnapshot(h) ==
    /\ calls[h].pc = "get_snapshot"
    /\ LET lock == SnapLock(calls[h].epoch)
       IN IF calls[h].op = "put"
          THEN IF try_write(guards, lock)
               THEN Acquire(h, lock, "write", "access")
               ELSE Panic(h, lock, "write")
          ELSE IF try_read(guards, lock)
               THEN Acquire(h, lock, "read", "access")
               ELSE Panic(h, lock, "read")
    /\ UNCHANGED <<store, aggrs, limiter, serial, hist, insert_vars>>

\* put: target.insert(tuple, Tuple::default()); exists: contains_key(tuple);
\* then both guards are dropped as the call returns.
Access(h) ==
    /\ calls[h].pc = "access"
    /\ LET c == calls[h]
       IN IF c.op = "put"
          THEN /\ mem_db' = WithSnapshot(Self, c.epoch,
                                MapInsert(Snapshot(Self, c.epoch), c.tuple, <<>>)).mem_db
               /\ last' = [op |-> "put", handle |-> h]
          ELSE /\ mem_db' = mem_db
               /\ last' = [op |-> "exists", handle |-> h,
                           ret |-> c.tuple \in DOMAIN Snapshot(Self, c.epoch)]
    /\ guards' = Release(guards, h)
    /\ calls' = [calls EXCEPT ![h] = [pc |-> "idle"]]
    /\ UNCHANGED <<epoch_size, n_ops>>
    /\ UNCHANGED <<store, aggrs, limiter, serial, hist, insert_vars>>

NextShared ==
    \E h \in Handles :
        \/ \E op \in SharedOps, tuple \in SharedRows, epoch \in Epochs : Begin(h, op, tuple, epoch)
        \/ EnsureLen(h)
        \/ EnsureWrite(h)
        \/ EnsurePush(h)
        \/ EnsureStore(h)
        \/ ReadVec(h)
        \/ GetSnapshot(h)
        \/ Access(h)

SpecShared == InitShared /\ [][NextShared]_vars

----------------------------------------------------------------------------
(* Properties of guard acquisition.                                         *)

\* A write guard is the only guard held on its lock.
NoWriterOverlap ==
    \A x \in guards : x[3] = "write" => \A y \in guards : y[2] = x[2] => y = x

\* The lock and the mode a call asks for at an acquisition point.
Wanted(c) ==
    CASE c.pc = "ensure_len" -> <<VecLock, "read">>
      [] c.pc = "ensure_write" -> <<VecLock, "write">>
      [] c.pc = "read_vec" -> <<VecLock, "read">>
      [] c.pc = "get_snapshot" ->
            <<SnapLock(c.epoch), IF c.op = "put" THEN "write" ELSE "read">>

\* Another handle holds a guard that conflicts with the wanted one.
Conflicting(h, want) ==
    \E x \in guards :
        /\ x[1] # h /\ x[2] = want[1]
        /\ (want[2] = "write" \/ x[3] = "write")

\* A step a handle makes at an acquisition point: on a conflict the process
\* panics in that very step, drops its guards and leaves the store alone;
\* without one it is granted the guard and goes on. A process that panicked
\* never moves again.
FatalOnConflict ==
    \A h \in Handles :
        /\ calls[h].pc = "panicked" => calls'[h] = calls[h]
        /\ (/\ calls[h].pc \in {"ensure_len", "ensure_write", "read_vec", "get_snapshot"}
            /\ calls'[h] # calls[h]
            => IF Conflicting(h, Wanted(calls[h]))
               THEN /\ calls'[h].pc = "panicked"
                    /\ guards' = Release(guards, h)
                    /\ mem_db' = mem_db /\ epoch_size' = epoch_size
               ELSE /\ calls'[h].pc # "panicked"
                    /\ (calls[h].pc # "ensure_len" =>
                          guards' = guards \cup {<<h, Wanted(calls[h])[1], Wanted(calls[h])[2]>>}))
        /\ (calls'[h].pc = "panicked" /\ calls[h].pc # "panicked"
            => Conflicting(h, Wanted(calls[h])))

\* C12: guard acquisition never blocks: an acquisition that conflicts with a
\* guard another handle holds ends the process at once, without waiting or
\* retrying, and no lock ever has a write guard together with another guard.
C12_NonBlockingGuards == []NoWriterOverlap /\ [][FatalOnConflict]_vars

\* C12 witness: a put has panicked on the snapshot another handle was reading,
\* and that reader still holds its guard.
C12_Witness ==
    /\ last.op = "panic" /\ last.mode = "write" /\ last.lock[1] = "snapshot"
    /\ calls[last.handle].pc = "panicked"
    /\ \E x \in guards : x[2] = last.lock /\ x[3] = "read" /\ x[1] # last.handle

----------------------------------------------------------------------------
(* Cancellation of the finalize pass.                                       *)

\* The number of rows of epoch 0 a finalize pass reads.
InputRows == Cardinality(DOMAIN Epoch0(Self))

\* C13: the cancellation flag is polled at every input row of epoch 0: a
\* finalize pass during which cancellation is requested by the time one of
\* its rows is processed returns the cancellation error, and a pass without
\* any request does not.
C13_CancelStep ==
    last'.op = "normal_aggr_scan_and_put" /\ n_ops' = n_ops + 1 /\ ~last'.use_limiter =>
        last'.err = (last'.poison_from # 0 /\ last'.poison_from <= InputRows)

C13_CancelPolledPerRow == [][C13_CancelStep]_vars

----------------------------------------------------------------------------
(* Insertion::build against the session's catalog.                          *)

\* ctx.resolve_table: the tables the catalog knows by name. The Option is a
\* sequence of at most one table id.
resolve_table(name) ==
    CASE name = "node" -> <<TableId(1, TRUE)>>
      [] name = "edge" -> <<TableId(3, TRUE)>>
      [] name = "loop" -> <<TableId(4, FALSE)>>
      [] OTHER -> <<>>

\* ctx.get_table_info
get_table_info(tid) == CHOOSE info \in TargetInfos : info.tid = tid

\* ctx.get_table_assocs: the associations declared on a table, by name.
get_table_assocs(tid) ==
    <<[name |-> "ap", info |-> AssocInfo(5, TRUE, "p")],
      [name |-> "aq", info |-> AssocInfo(6, FALSE, "q")]>>

\* Insertion::build, with the upstream node given: the table argument
\* parsed into a table name and association names, and the scoped dict.
build(n_args, table_name, assoc_names, keyed, ups) ==
    LET target_id == resolve_table(table_name)
        declared == get_table_assocs(target_id[1])
        bound == SelectSeq(declared, LAMBDA v : v.name \in assoc_names)
    IN IF n_args < 2 THEN [err |-> "NotEnoughArguments"]
       ELSE IF keyed THEN [err |-> "Parse"]
       ELSE IF target_id = <<>> THEN [err |-> "TableNotFound"]
       ELSE [err |-> None,
             target_info |-> get_table_info(target_id[1]),
             assoc_infos |-> [i \in 1..Len(bound) |-> bound[i].info],
             upsert |-> ups]

TableNames == {"node", "edge", "loop", "ghost"}
AssocNames == {"ap", "aq", "ghost"}

InitBuild ==
    /\ last = [op |-> "new"]
    /\ n_ops = 0
    /\ InitInsertIdle
    /\ InitDerivedIdle
    /\ InitNoCalls

Build(n_args, table_name, assoc_names, keyed, ups) ==
    /\ n_ops = 0
    /\ LET r == build(n_args, table_name, assoc_names, keyed, ups)
       IN /\ IF r.err = None
             THEN /\ target_info' = r.target_info
                  /\ assoc_infos' = r.assoc_infos
                  /\ upsert' = r.upsert
             ELSE UNCHANGED <<target_info, assoc_infos, upsert>>
          /\ last' = [op |-> "build", n_args |-> n_args, table_name |-> table_name,
                      assoc_names |-> assoc_names, keyed |-> keyed, err |-> r.err]
    /\ n_ops' = n_ops + 1
    /\ UNCHANGED <<txn, temp_db, derived_vars, shared_vars>>

NextBuild ==
    \E n_args \in 0..2, table_name \in TableNames, assoc_names \in SUBSET AssocNames,
       keyed \in BOOLEAN, ups \in BOOLEAN :
        Build(n_args, table_name, assoc_names, keyed, ups)

SpecBuild == InitBuild /\ [][NextBuild]_vars

\* The names of the associations declared on a table.
DeclaredNames(tid) ==
    {get_table_assocs(tid)[i].name : i \in 1..Len(get_table_assocs(tid))}

\* C14: a build whose table argument names an unknown table fails with
\* TableNotFound, and one that names an association the target table does
\* not have fails too; neither constructs an operator.
C14_BuildRejectsUnknown ==
    last.op = "build" /\ last.n_args = 2 /\ ~last.keyed =>
        /\ (resolve_table(last.table_name) = <<>> =>
              last.err = "TableNotFound" /\ target_info = None)
        /\ (/\ resolve_table(last.table_name) # <<>>
            /\ ~(last.assoc_names \subseteq DeclaredNames(resolve_table(last.table_name)[1]))
            => last.err # None /\ target_info = None)

----------------------------------------------------------------------------
(* Insertion::binding_map.                                                  *)

TupleSetIdx(is_key, t_set, col_idx) ==
    [is_key |-> is_key, t_set |-> t_set, col_idx |-> col_idx]

\* The entries of a run of key columns, the first at col_idx = offset.
KeyEntries(cols, offset) ==
    [i \in 1..Len(cols) |-> <<cols[i], TupleSetIdx(TRUE, 0, (i - 1) + offset)>>]

\* The entries of the value columns held by slot t_set.
ValEntries(cols, t_set) ==
    [i \in 1..Len(cols) |-> <<cols[i], TupleSetIdx(FALSE, t_set, i - 1)>>]

\* The entries of the associations from the i-th on: slot iset + 1.
RECURSIVE AssocEntries(_, _)
AssocEntries(assocs, i) ==
    IF i > Len(assocs) THEN <<>>
    ELSE ValEntries(assocs[i].vals, (i - 1) + 1) \o AssocEntries(assocs, i + 1)

\* BTreeMap::insert of the entries in order: a later entry replaces an
\* earlier one with the same name.
RECURSIVE InsertAll(_, _)
InsertAll(m, entries) ==
    IF entries = <<>> THEN m
    ELSE InsertAll(MapInsert(m, entries[1][1], entries[1][2]), Tail(entries))

\* Insertion::build_binding_map_inner
build_binding_map_inner(info, assocs) ==
    LET primary ==
          CASE info.kind = "Node" ->
                  KeyEntries(info.keys, 0) \o ValEntries(info.vals, 0)
            [] info.kind = "Edge" ->
                  LET src == get_node_info(info.src_id)
                      dst == get_node_info(info.dst_id)
                  IN KeyEntries(src.keys, 1)
                       \o KeyEntries(dst.keys, 2 + Len(src.keys))
                       \o KeyEntries(info.keys, 2 + Len(src.keys) + Len(dst.keys))
                       \o ValEntries(info.vals, 0)
    IN InsertAll(EmptyMap, primary \o AssocEntries(assocs, 1))

\* The column a TupleSetIdx addresses in an emitted TupleSet.
TupleSetGet(item, idx) ==
    IF idx.is_key THEN item.keys[idx.t_set + 1].data[idx.col_idx + 1]
    ELSE item.vals[idx.t_set + 1].data[idx.col_idx + 1]

\* C15: a row written successfully is emitted as one TupleSet: its only key
\* is the primary key under the target's table id, its first value is the
\* primary value, and the values that follow are those of the bound
\* associations, each in the slot binding_map gives its columns.
C15_EmitStep ==
    last'.op = "iter" /\ n_ops' = n_ops + 1 /\ last'.item.ok =>
        LET item == last'.item
            row == last'.row
            bm == build_binding_map_inner(target_info, assoc_infos)
        IN /\ item.keys = <<PrimaryKey(row)>>
           /\ item.keys[1].prefix = target_info.tid.id
           /\ Len(item.vals) = 1 + Len(assoc_infos)
           /\ item.vals[1] = PrimaryVal(row)
           /\ \A i \in 1..Len(assoc_infos) :
                 /\ item.vals[i + 1] =
                       eval_to_tuple(DataPrefix, Extractors(assoc_infos[i].vals), row)
                 /\ \A j \in 1..Len(assoc_infos[i].vals) :
                       LET c == assoc_infos[i].vals[j]
                       IN /\ bm[c] = TupleSetIdx(FALSE, i, j - 1)
                          /\ TupleSetGet(item, bm[c]) = row[c]

C15_EmittedTupleSet == [][C15_EmitStep]_vars

\* C15 witness: a row was emitted by an operator bound to two associations,
\* whose writes had left another table id on the key.
C15_Witness ==
    /\ last.op = "iter" /\ last.item.ok
    /\ Len(assoc_infos) = 2
    /\ Len(last.item.vals) = 3
    /\ last.item.vals[2] # last.item.vals[3]
    /\ assoc_infos[2].tid.id # target_info.tid.id
    /\ overwrite_prefix(last.item.keys[1], assoc_infos[2].tid.id)
          \in DOMAIN Selected(Stores, assoc_infos[2].tid.in_root)

----------------------------------------------------------------------------
(* The writes of one row.                                                   *)

\* The key and the value of the i-th bound association for a row.
AssocKey(row, i) == overwrite_prefix(PrimaryKey(row), assoc_infos[i].tid.id)

AssocVal(row, i) == eval_to_tuple(DataPrefix, Extractors(assoc_infos[i].vals), row)

\* The number of puts a row makes for the primary table.
PrimaryPuts == IF target_info.kind = "Edge" THEN 2 ELSE 1

\* C16: each bound association of a written row gets one entry: its key is
\* the primary key with the table id replaced by the association's, its
\* value the association's extracted values, in the store the association's
\* own root flag selects (the other store is not written at that key); the
\* association writes leave the primary key's entry as the primary writes
\* made it.
C16_AssocStep ==
    last'.op = "iter" /\ n_ops' = n_ops + 1 /\ last'.item.ok =>
        LET row == last'.row
            primary == SubSeq(last'.writes, 1, PrimaryPuts)
        IN /\ Len(last'.writes) = PrimaryPuts + Len(assoc_infos)
           /\ \A i \in 1..Len(assoc_infos) :
                 LET akey == AssocKey(row, i)
                     in_root == assoc_infos[i].tid.in_root
                 IN /\ akey.data = PrimaryKey(row).data
                    /\ akey.prefix = assoc_infos[i].tid.id
                    /\ last'.writes[PrimaryPuts + i] = Write(in_root, akey, AssocVal(row, i))
                    /\ akey \in DOMAIN Selected(Stores', in_root)
                    /\ Selected(Stores', in_root)[akey] = AssocVal(row, i)
                    /\ (akey \in DOMAIN Selected(Stores', ~in_root) <=>
                          akey \in DOMAIN Selected(Stores, ~in_root))
           /\ TargetStore'[PrimaryKey(row)] =
                 Selected(Replay(Stores, primary), target_info.tid.in_root)[PrimaryKey(row)]

C16_AssocEntries == [][C16_AssocStep]_vars

\* C16 witness: a row of a table of the transaction was written with an
\* association that lives in the temporary store.
C16_Witness ==
    /\ last.op = "iter" /\ last.item.ok
    /\ target_info.tid.in_root
    /\ \E i \in 1..Len(assoc_infos) :
          /\ ~assoc_infos[i].tid.in_root
          /\ AssocKey(last.row, i) \in DOMAIN temp_db
          /\ AssocKey(last.row, i) \notin DOMAIN txn
          /\ PrimaryKey(last.row) \in DOMAIN txn

\* C17: the stores are written only when a row is pulled; the puts of a
\* pulled row are made in the order primary entry, inverse entry (edge
\* tables), association entries in declaration order, and all of them are
\* in the stores when the pull returns, before the next row is pulled.
C17_OrderStep ==
    /\ (txn' # txn \/ temp_db' # temp_db => last'.op = "iter" /\ n_ops' = n_ops + 1)
    /\ (last'.op = "iter" /\ n_ops' = n_ops + 1 =>
          LET row == last'.row
              w == last'.writes
          IN /\ Stores' = Replay(Stores, w)
             /\ (last'.item.ok =>
                   /\ w[1] = Write(target_info.tid.in_root, PrimaryKey(row), PrimaryVal(row))
                   /\ (target_info.kind = "Edge" =>
                         w[2] = Write(target_info.tid.in_root, InverseKey(row), PrimaryKey(row)))
                   /\ \A i \in 1..Len(assoc_infos) :
                         w[PrimaryPuts + i] =
                            Write(assoc_infos[i].tid.in_root, AssocKey(row, i), AssocVal(row, i))
                   /\ Len(w) = PrimaryPuts + Len(assoc_infos))
             /\ (~last'.item.ok => w = <<>>))

C17_LazyOrderedWrites == [][C17_OrderStep]_vars

\* C17 witness: the second row of an edge table with two associations was
\* pulled and made its four puts, after the first row's puts.
C17_Witness ==
    /\ last.op = "iter" /\ last.item.ok /\ n_ops = 2
    /\ target_info.kind = "Edge" /\ Len(assoc_infos) = 2
    /\ Len(last.writes) = 4
    /\ \E k \in DOMAIN TargetStore : \A i \in 1..4 : last.writes[i].key # k

----------------------------------------------------------------------------
(* Forward and inverse keys of one edge table.                              *)

\* C18: in an edge table the forward key of a pulled row is not the inverse
\* key of any row of the table, the row itself included, whether or not the
\* source and destination node tables are the same table.
C18_ForwardInverseDisjoint ==
    last.op = "iter" /\ target_info.kind = "Edge" =>
        \A y \in SourceRows(target_info, assoc_infos) :
            PrimaryKey(last.row) # InverseKey(y)

----------------------------------------------------------------------------
(* Delta epochs.                                                            *)

\* Every key of a later epoch is a key of epoch 0.
DeltaKeysInEpochZero ==
    \A i \in 2..Len(mem_db) : DOMAIN mem_db[i] \subseteq DOMAIN mem_db[1]

\* A key enters a later epoch only by a meet-put that names the epoch, has
\* that key and returns true.
DeltaKeyStep ==
    \A i \in 2..Len(mem_db') :
        \A k \in DOMAIN mem_db'[i] :
            (i > Len(mem_db) \/ k \notin DOMAIN mem_db[i]) =>
                /\ last'.op = "aggr_meet_put" /\ n_ops' = n_ops + 1
                /\ last'.epoch = i - 1
                /\ last'.ret
                /\ meet_key(last'.tuple, aggrs) = k

\* C19: after any meet-puts on an empty store, the keys of every epoch
\* e >= 1 are keys of epoch 0, and a key is in epoch e only if a meet-put
\* naming e returned true for it.
C19_DeltaEpochs == []DeltaKeysInEpochZero /\ [][DeltaKeyStep]_vars

\* C19 witness: a key recorded in a later epoch whose accumulator epoch 0
\* has since moved on from.
C19_Witness ==
    /\ Len(mem_db) >= 2
    /\ \E k \in DOMAIN mem_db[2] : k \in DOMAIN mem_db[1] /\ mem_db[2][k] # mem_db[1][k]

----------------------------------------------------------------------------
(* The limiter's count.                                                     *)

\* C20: a finalize pass with a limiter increments the limiter once for each
\* group result the destination did not hold and never for one it held: the
\* count grows by the number of rows the pass added to the destination,
\* however the pass ends.
C20_LimiterCountStep ==
    last'.op = "normal_aggr_scan_and_put" /\ n_ops' = n_ops + 1 /\ last'.use_limiter =>
        /\ DOMAIN Epoch0(store) \subseteq DOMAIN Epoch0(store')
        /\ limiter'.counter - limiter.counter =
              Cardinality(DOMAIN Epoch0(store') \ DOMAIN Epoch0(store))
        /\ limiter'.total = limiter.total

C20_LimiterCountsNovel == [][C20_LimiterCountStep]_vars

\* C20 witness: after passes with a limiter over a relation that holds rows,
\* the destination holds one result, the limiter has counted one row and
\* has not signalled.
C20_Witness ==
    /\ last.op = "normal_aggr_scan_and_put" /\ last.use_limiter /\ ~last.ret /\ ~last.err
    /\ n_ops = 3 /\ Cardinality(hist) = 1
    /\ limiter.total = 2 /\ limiter.counter = 1
    /\ Cardinality(DOMAIN Epoch0(store)) = 1

----------------------------------------------------------------------------
(* The insertion operator run against a table that already holds a row.     *)

\* The row an earlier transaction wrote to the target table.
ExistingRow(info, assocs) ==
    CHOOSE r \in SourceRows(info, assocs) :
        \A c \in DOMAIN r : c \in {"a", "b", "e", "x", "y", "w"} => r[c] = Num(1)

InitInsertExisting ==
    /\ target_info \in TargetInfos
    /\ assoc_infos \in AssocChoices
    /\ upsert \in BOOLEAN
    /\ LET st == iter_row([txn |-> EmptyMap, temp_db |-> EmptyMap], target_info, assoc_infos,
                          TRUE, ExistingRow(target_info, assoc_infos)).st
       IN txn = st.txn /\ temp_db = st.temp_db
    /\ last = [op |-> "new"]
    /\ n_ops = 0
    /\ InitDerivedIdle
    /\ InitNoCalls

SpecInsertExisting == InitInsertExisting /\ [][NextInsert]_vars

\* C21: once a pull has yielded an error the iteration is over: the pull
\* that follows it on the same iterator writes to no store.
C21_AbortStep ==
    /\ last.op = "iter" /\ ~last.item.ok
    /\ last'.op = "iter" /\ n_ops' = n_ops + 1
    => txn' = txn /\ temp_db' = temp_db

C21_ErrorAbortsIteration == [][C21_AbortStep]_vars

----------------------------------------------------------------------------
(* Meet aggregation over rows that hold values the meet operators reject.   *)

\* Rows <<v, w, v>> whose middle column may hold a non-number.
MeetErrRows == {<<v, w, v>> : v \in {Num(1), Num(2)}, w \in {Num(1), Bool(TRUE)}}

\* The rule head: the middle aggregate stands between two others.
MeetErrAggrs == {<<"min", "max", "min">>, <<None, "max", "min">>}

InitMeetErr ==
    /\ mem_db = NewStore.mem_db
    /\ epoch_size = NewStore.epoch_size
    /\ store = NewStore
    /\ aggrs \in MeetErrAggrs
    /\ limiter = None
    /\ serial = 0
    /\ hist = {}
    /\ last = [op |-> "new"]
    /\ n_ops = 0
    /\ InitInsertIdle
    /\ InitNoCalls

NextMeetErr == \E tuple \in MeetErrRows, epoch \in Epochs : AggrMeetPut(tuple, epoch)

SpecMeetErr == InitMeetErr /\ [][NextMeetErr]_vars

\* The call just made found its key in epoch 0.
MeetKeyPresent ==
    /\ n_ops' = n_ops + 1 /\ last'.op = "aggr_meet_put"
    /\ Len(mem_db) > 0
    /\ meet_key(last'.tuple, aggrs) \in DOMAIN mem_db[1]

\* Aggregate i rejects the merge of the row's value into the stored one.
MeetFails(i) ==
    /\ aggrs[i] # None
    /\ MeetUpdate(aggrs[i], mem_db[1][meet_key(last'.tuple, aggrs)][i], last'.tuple[i]).err

\* The first aggregate that rejects the merge.
FirstFailing ==
    CHOOSE i \in 1..Len(aggrs) : MeetFails(i) /\ \A j \in 1..(i - 1) : ~MeetFails(j)

\* What a failed merge leaves in the snapshots that existed before the
\* call: the error is returned, every snapshot but epoch 0 is as it was, and
\* epoch 0 differs at most in the accumulators before the failing one, which
\* hold the merged values.
MeetErrorEffect ==
    LET key == meet_key(last'.tuple, aggrs)
        prev == mem_db[1][key]
    IN /\ last'.err
       /\ Len(mem_db') >= Len(mem_db)
       /\ \A e \in 2..Len(mem_db) : mem_db'[e] = mem_db[e]
       /\ DOMAIN mem_db'[1] = DOMAIN mem_db[1]
       /\ \A k \in DOMAIN mem_db[1] : k # key => mem_db'[1][k] = mem_db[1][k]
       /\ \A i \in 1..Len(aggrs) :
            mem_db'[1][key][i] =
                IF i < FirstFailing /\ aggrs[i] # None
                THEN MeetUpdate(aggrs[i], prev[i], last'.tuple[i]).val
                ELSE prev[i]

\* C22 as stated: when a merge fails on a present key the error is returned
\* at once, later aggregates are not merged, nothing is written to the
\* requested epoch, and nothing in the store differs from before the call
\* but the epoch-0 accumulators merged before the failing one.
C22_FailStepExact ==
    MeetKeyPresent /\ (\E i \in 1..Len(aggrs) : MeetFails(i))
    => /\ MeetErrorEffect
       /\ Len(mem_db') = Len(mem_db)

C22_MeetErrorOnlyAccumulators == [][C22_FailStepExact]_vars

\* C22, amended: as above, except that the call may first have appended
\* empty snapshots up to the requested epoch and recorded that epoch in
\* epoch_size.
C22_FailStep ==
    MeetKeyPresent /\ (\E i \in 1..Len(aggrs) : MeetFails(i))
    => /\ MeetErrorEffect
       /\ \A e \in (Len(mem_db) + 1)..Len(mem_db') : mem_db'[e] = EmptyMap
       /\ epoch_size' \in {epoch_size, last'.epoch}

C22_MeetErrorKeepsEpochs == [][C22_FailStep]_vars

\* A failed merge into epoch 1 after the first accumulator was lowered: the
\* first accumulator holds the new minimum, the last one still holds its old
\* value although the row's is lower, and epoch 1 is empty.
C22_Witness ==
    /\ last.op = "aggr_meet_put" /\ last.err /\ last.epoch = 1
    /\ aggrs = <<"min", "max", "min">>
    /\ last.tuple = <<Num(1), Bool(TRUE), Num(1)>>
    /\ Len(mem_db) = 2 /\ mem_db[2] = EmptyMap
    /\ mem_db[1][meet_key(last.tuple, aggrs)] = <<Num(1), Num(1), Num(2)>>
    /\ hist = {<<<<Num(2), Num(1), Num(2)>>, 0>>, <<last.tuple, 1>>}

----------------------------------------------------------------------------
(* Key-value entries and the operations that only read the store.           *)

\* DerivedRelStore::put_kv
put_kv(st, tuple, val, epoch) ==
    LET st1 == ensure_mem_db_for_epoch(st, epoch)
    IN WithSnapshot(st1, epoch, MapInsert(Snapshot(st1, epoch), tuple, val))

\* DerivedRelStore::scan_sorted: the map of epoch 0 is walked in its own
\* order and each entry yields its value.
scan_sorted(st) ==
    LET st1 == ensure_mem_db_for_epoch(st, 0)
        target == Snapshot(st1, 0)
        ks == SortedKeys(DOMAIN target)
    IN [st |-> st1, res |-> [i \in 1..Len(ks) |-> target[ks[i]]]]

\* DerivedRelStore::scan_bounded_prefix_for_epoch: the keys between
\* prefix ++ lower and prefix ++ upper; BTreeMap::range panics when the
\* lower bound is above the upper one.
scan_bounded_prefix_for_epoch(st, prefix, lower, upper, epoch) ==
    LET st1 == ensure_mem_db_for_epoch(st, epoch)
        prefix_bound == prefix \o lower
        upper_bound == prefix \o upper
        target == Snapshot(st1, epoch)
    IN IF TupleLess(upper_bound, prefix_bound)
       THEN [st |-> st1, res |-> <<>>, panic |-> TRUE]
       ELSE [st |-> st1, res |-> RangeKeys(target, prefix_bound, upper_bound),
             panic |-> FALSE]

KvKeys == {<<Num(1)>>, <<Num(2)>>}

KvVals == {<<Num(1)>>, <<Num(2)>>}

InitKv ==
    /\ mem_db = NewStore.mem_db
    /\ epoch_size = NewStore.epoch_size
    /\ store = NewStore
    /\ aggrs = <<>>
    /\ limiter = None
    /\ serial = 0
    /\ hist = {}
    /\ last = [op |-> "new"]
    /\ n_ops = 0
    /\ InitInsertIdle
    /\ InitNoCalls

PutKv(tuple, val, epoch) ==
    /\ n_ops < MaxOps
    /\ LET st == put_kv(Self, tuple, val, epoch)
       IN /\ mem_db' = st.mem_db
          /\ epoch_size' = st.epoch_size
    /\ last' = [op |-> "put_kv", tuple |-> tuple, val |-> val, epoch |-> epoch]
    /\ hist' = hist \cup {<<tuple, val, epoch>>}
    /\ n_ops' = n_ops + 1
    /\ UNCHANGED <<store, aggrs, limiter, serial, insert_vars, shared_vars>>

ScanSorted ==
    /\ n_ops < MaxOps
    /\ LET r == scan_sorted(Self)
       IN /\ mem_db' = r.st.mem_db
          /\ epoch_size' = r.st.epoch_size
          /\ last' = [op |-> "scan_sorted", epoch |-> 0, res |-> r.res]
    /\ n_ops' = n_ops + 1
    /\ UNCHANGED <<store, aggrs, limiter, serial, hist, insert_vars, shared_vars>>

NextKv ==
    \/ \E tuple \in KvKeys, val \in KvVals, epoch \in Epochs : PutKv(tuple, val, epoch)
    \/ ScanSorted

SpecKv == InitKv /\ [][NextKv]_vars

\* C24: scan_sorted returns the entries of epoch 0, all of them written with
\* put_kv, in ascending order of their value tuples.
C24_ScanSortedByValue ==
    last.op = "scan_sorted" =>
        /\ Len(last.res) = Cardinality(DOMAIN mem_db[1])
        /\ \A i, j \in 1..Len(last.res) : i < j => TupleLeq(last.res[i], last.res[j])

----------------------------------------------------------------------------
(* A store of key-value entries and the reads a caller makes of it.         *)

\* The store after the entries of S, triples <<key, value, epoch>>, were
\* written with put_kv.
RECURSIVE PutKvAll(_)
PutKvAll(S) ==
    IF S = {} THEN NewStore
    ELSE LET p == CHOOSE q \in S : TRUE
         IN put_kv(PutKvAll(S \ {p}), p[1], p[2], p[3])

InitRead ==
    /\ \E S \in SUBSET (KvKeys \X KvVals \X Epochs) :
          /\ Cardinality(S) <= MaxKeys
          /\ mem_db = PutKvAll(S).mem_db
          /\ epoch_size = PutKvAll(S).epoch_size
    /\ store = NewStore
    /\ aggrs = <<>>
    /\ limiter = None
    /\ serial = 0
    /\ hist = {}
    /\ last = [op |-> "new"]
    /\ n_ops = 0
    /\ InitInsertIdle
    /\ InitNoCalls

Exists(tuple, epoch) ==
    /\ n_ops < MaxOps
    /\ LET r == exists(Self, tuple, epoch)
       IN /\ mem_db' = r.st.mem_db
          /\ epoch_size' = r.st.epoch_size
          /\ last' = [op |-> "exists", tuple |-> tuple, epoch |-> epoch, ret |-> r.ret]
    /\ n_ops' = n_ops + 1
    /\ UNCHANGED <<store, aggrs, limiter, serial, hist, insert_vars, shared_vars>>

\* The lower and upper column suffixes a caller bounds a scan with.
Suffixes == {<<Num(1)>>, <<Num(2)>>}

ScanBoundedPrefixForEpoch(prefix, lower, upper, epoch) ==
    /\ n_ops = 0
    /\ LET r == scan_bounded_prefix_for_epoch(Self, prefix, lower, upper, epoch)
       IN /\ mem_db' = r.st.mem_db
          /\ epoch_size' = r.st.epoch_size
          /\ last' = [op |-> "scan_bounded_prefix_for_epoch", prefix |-> prefix,
                      lower |-> lower, upper |-> upper, epoch |-> epoch,
                      res |-> r.res, panic |-> r.panic]
    /\ n_ops' = n_ops + 1
    /\ UNCHANGED <<store, aggrs, limiter, serial, hist, insert_vars, shared_vars>>

NextRead ==
    \/ \E tuple \in KvKeys, epoch \in Epochs : Exists(tuple, epoch)
    \/ \E epoch \in Epochs : ScanAllForEpoch(epoch)
    \/ ScanSorted
    \/ \E prefix \in {<<>>} \cup KvKeys, epoch \in Epochs : ScanPrefixForEpoch(prefix, epoch)
    \/ \E lower \in Suffixes, upper \in Suffixes, epoch \in Epochs :
          ScanBoundedPrefixForEpoch(<<>>, lower, upper, epoch)

SpecRead == InitRead /\ [][NextRead]_vars

ReadOps ==
    {"exists", "scan_all_for_epoch", "scan_sorted", "scan_prefix_for_epoch",
     "scan_bounded_prefix_for_epoch"}

\* C23: a scan or exists leaves every snapshot the store had with the
\* content it had; all it may do to the store is append empty snapshots, and
\* only as many as make the requested epoch exist.
C23_ReadStep ==
    n_ops' = n_ops + 1 /\ last'.op \in ReadOps =>
        /\ Len(mem_db') \in {Len(mem_db), last'.epoch + 1}
        /\ Len(mem_db') >= Len(mem_db)
        /\ \A e \in 1..Len(mem_db') :
              mem_db'[e] = IF e <= Len(mem_db) THEN mem_db[e] ELSE EmptyMap

C23_ReadsKeepSnapshots == [][C23_ReadStep]_vars

\* A bounded scan of epoch 1 on a store that had only epoch 0 appended one
\* empty snapshot and left the entries of epoch 0 alone.
C23_Witness ==
    /\ last.op = "scan_bounded_prefix_for_epoch" /\ last.epoch = 1 /\ ~last.panic
    /\ Len(mem_db) = 2 /\ epoch_size = 1
    /\ Cardinality(DOMAIN mem_db[1]) = 2 /\ mem_db[2] = EmptyMap

----------------------------------------------------------------------------
(* The binding map against the key the operator builds.                     *)

\* The positions of the forward key, counted from 0, that hold a column.
KeyColumns(info) ==
    {p \in 0..(Len(make_key_builders(info).key_builder) - 1) :
        ~make_key_builders(info).key_builder[p + 1].const}

\* The column the forward key holds at position p.
KeyColumnAt(info, p) == make_key_builders(info).key_builder[p + 1].col

\* C25: the binding map, computed from the target schema and the bound
\* associations alone, has an entry of its own for every column of the
\* forward key (for an edge: source keys, destination keys, edge keys) whose
\* col_idx is the column's position in that key, where the emitted row holds
\* the column's value; also for an edge from a node table to itself.
C25_BindingStep ==
    last'.op = "iter" /\ n_ops' = n_ops + 1 /\ last'.item.ok =>
        LET bm == build_binding_map_inner(target_info, assoc_infos)
            key_entries == {c \in DOMAIN bm : bm[c].is_key}
        IN /\ \A p \in KeyColumns(target_info) :
                 /\ \E c \in key_entries : bm[c] = TupleSetIdx(TRUE, 0, p)
                 /\ bm[KeyColumnAt(target_info, p)] = TupleSetIdx(TRUE, 0, p)
                 /\ TupleSetGet(last'.item, TupleSetIdx(TRUE, 0, p))
                       = last'.row[KeyColumnAt(target_info, p)]
           /\ Cardinality(key_entries) = Cardinality(KeyColumns(target_info))

C25_BindingMapPositions == [][C25_BindingStep]_vars

====
